---- MODULE Spec2Model ----
(***************************************************************************)
(* Model of the izar (Diehl/Sappel PRIOS) water meter driver,              *)
(* src/src/driver_izar.cc: the key-trial loop and the field extraction of  *)
(* Driver::processContent, the MeterReading fields of struct Driver, and   *)
(* the text functions serialNumber, currentAlarmsText, previousAlarmsText. *)
(*                                                                         *)
(* Conventions.                                                            *)
(*  - A vector<uchar> is a sequence of naturals in 0..255; the C++ index i *)
(*    is the TLA+ index i+1 (see At).                                      *)
(*  - A numeric std::string (to_string, substr, atoi, strprintf) is a      *)
(*    sequence of character codes ('0' = 48, '@' = 64).                    *)
(*  - An alarm text is a sequence of tokens: each flag name is one token   *)
(*    and the separator "," is a token of its own, so that s.pop_back()    *)
(*    (which removes the last character, always a ",") removes the last    *)
(*    token.                                                               *)
(*  - remaining_battery_life is a double holding a multiple of 0.5; it is  *)
(*    kept in tenths of a year ((x & 0x1F) / 2.0 is 5 * (x & 0x1F) tenths).*)
(*  - total_water_consumption_l_ and last_month_total_water_consumption_l_ *)
(*    are doubles holding a uint32_t exactly; a uint32_t that may use all  *)
(*    32 bits is kept as <<high 16 bits, low 16 bits>>.                    *)
(*  - An index past the end of a vector is undefined behaviour: the read   *)
(*    either aborts the process or yields a byte the program does not      *)
(*    control (UBOutcomes).                                                *)
(***************************************************************************)
EXTENDS Integers, Sequences, FiniteSets, TLC

VARIABLES
    reading,          \* the MeterReading fields of struct Driver (lines 58-68)
    keys,             \* vector<uint32_t> keys (line 70)
    fresh,            \* no processContent call has decoded a telegram yet
    prints,           \* the texts the print callbacks returned last
    \* The call of processContent that has just ended, until its caller goes on:
    telegram,         \* its Telegram *t
    before,           \* the MeterReading fields when it was entered
    calls,            \* the keys it handed to decodePrios, in order
    decoded_content,  \* its decoded_content after the key loop
    outcome,          \* how it ended
    oob               \* it indexed a vector at or past its end

vars == <<reading, keys, fresh, prints, telegram, before, calls, decoded_content, outcome, oob>>

----------------------------------------------------------------------------
(* Bounds of the model.                                                    *)

\* The longest configured key list.
MaxKeys == 3
\* The number of distinct key values.
NumKeys == 2

KeySpace == 1..NumKeys

RECURSIVE SeqsUpTo(_, _)
SeqsUpTo(S, n) ==
    IF n = 0 THEN {<<>>}
    ELSE LET shorter == SeqsUpTo(S, n - 1)
         IN shorter \cup {Append(s, e) : s \in {q \in shorter : Len(q) = n - 1}, e \in S}

KeyLists == SeqsUpTo(KeySpace, MaxKeys)

----------------------------------------------------------------------------
(* Integer and string primitives of C++ used by the driver.                *)

RECURSIVE BitAnd(_, _)
BitAnd(a, b) ==
    IF a = 0 \/ b = 0 THEN 0
    ELSE (a % 2) * (b % 2) + 2 * BitAnd(a \div 2, b \div 2)

RECURSIVE BitOr(_, _)
BitOr(a, b) ==
    IF a = 0 THEN b
    ELSE IF b = 0 THEN a
    ELSE ((a % 2) + (b % 2) - (a % 2) * (b % 2)) + 2 * BitOr(a \div 2, b \div 2)

Shl(a, n) == a * (2 ^ n)
Shr(a, n) == a \div (2 ^ n)

\* vec[i] of a vector<uchar>, i counted from 0; junk is what a read past the
\* end yields.
At(vec, i, junk) == IF i < Len(vec) THEN vec[i + 1] ELSE junk

\* std::to_string of a non-negative int.
RECURSIVE to_string(_)
to_string(n) ==
    IF n < 10 THEN <<48 + n>>
    ELSE Append(to_string(n \div 10), 48 + (n % 10))

\* std::string::substr(pos, len) throws std::out_of_range when pos > size().
substr_throws(s, pos) == pos > Len(s)

substr(s, pos, len) ==
    LET last == IF pos + len > Len(s) THEN Len(s) ELSE pos + len
    IN SubSeq(s, pos + 1, last)

\* atoi of a string of decimal digits (0 for the empty string).
RECURSIVE atoi(_)
atoi(s) ==
    IF s = <<>> THEN 0
    ELSE 10 * atoi(SubSeq(s, 1, Len(s) - 1)) + (s[Len(s)] - 48)

\* printf's %0<width>d of a non-negative value: at least width digits.
RECURSIVE ZeroPad(_, _)
ZeroPad(s, width) == IF Len(s) >= width THEN s ELSE ZeroPad(<<48>> \o s, width)

----------------------------------------------------------------------------
(* The MeterReading fields, lines 58-68, and the alarm flags, lines 26-39.  *)

AlarmNames ==
    {"general_alarm", "leakage_currently", "leakage_previously", "meter_blocked",
     "back_flow", "underflow", "overflow", "submarine", "sensor_fraud_currently",
     "sensor_fraud_previously", "mechanical_fraud_currently",
     "mechanical_fraud_previously"}

izar_alarms == [AlarmNames -> BOOLEAN]

NoAlarms == [n \in AlarmNames |-> FALSE]

\* The members of Driver that have a default member initializer (lines 58, 59,
\* 64-67; a std::string is constructed empty).
InitializedFields ==
    [prefix |-> <<>>,
     serial_number |-> 0,
     total_water_consumption_l_ |-> <<0, 0>>,
     last_month_total_water_consumption_l_ |-> <<0, 0>>,
     transmit_period_s_ |-> 0,
     manufacture_year |-> 0]

\* The members of Driver that have no initializer and that the constructor
\* (lines 89-142) does not assign: remaining_battery_life (line 60), h0_year,
\* h0_month, h0_day (lines 61-63) and alarms (line 68). After `new Driver` they
\* hold whatever the allocated memory held: a fill of zero bytes, or of any
\* other bytes. A bool read from such memory is true or false.
FillBytes == {0, \hA5, \hFF}

Driver(scalars, alarms) ==
    [prefix |-> InitializedFields.prefix,
     serial_number |-> InitializedFields.serial_number,
     remaining_battery_life |-> scalars.remaining_battery_life,
     h0_year |-> scalars.h0_year,
     h0_month |-> scalars.h0_month,
     h0_day |-> scalars.h0_day,
     total_water_consumption_l_ |-> InitializedFields.total_water_consumption_l_,
     last_month_total_water_consumption_l_ |->
         InitializedFields.last_month_total_water_consumption_l_,
     transmit_period_s_ |-> InitializedFields.transmit_period_s_,
     manufacture_year |-> InitializedFields.manufacture_year,
     alarms |-> alarms]

----------------------------------------------------------------------------
(* The text functions, lines 163-224.                                      *)

\* string::pop_back: the last character of an alarm text under construction is
\* the "," token.
pop_back(s) == SubSeq(s, 1, Len(s) - 1)

\* s.append("<name>,") when the flag is set (lines 173-196, 210-218).
AppendIf(s, flag, name) == IF flag THEN s \o <<name, ",">> ELSE s

serialNumber(m) == ZeroPad(to_string(m.serial_number), 6)

CurrentList(alarms) ==
    LET s1 == AppendIf(<<>>, alarms["leakage_currently"], "leakage")
        s2 == AppendIf(s1, alarms["meter_blocked"], "meter_blocked")
        s3 == AppendIf(s2, alarms["back_flow"], "back_flow")
        s4 == AppendIf(s3, alarms["underflow"], "underflow")
        s5 == AppendIf(s4, alarms["overflow"], "overflow")
        s6 == AppendIf(s5, alarms["submarine"], "submarine")
        s7 == AppendIf(s6, alarms["sensor_fraud_currently"], "sensor_fraud")
    IN AppendIf(s7, alarms["mechanical_fraud_currently"], "mechanical_fraud")

\* currentAlarmsText without its pop_back.
currentAlarmsText_nopop(alarms) ==
    LET s == CurrentList(alarms)
    IN IF Len(s) > 0
       THEN IF alarms["general_alarm"] THEN <<"general_alarm">> ELSE s
       ELSE <<"no_alarm">>

currentAlarmsText(alarms) ==
    LET s == CurrentList(alarms)
    IN IF Len(s) > 0
       THEN IF alarms["general_alarm"] THEN <<"general_alarm">> ELSE pop_back(s)
       ELSE <<"no_alarm">>

previousAlarmsText(alarms) ==
    LET s1 == AppendIf(<<>>, alarms["leakage_previously"], "leakage")
        s2 == AppendIf(s1, alarms["sensor_fraud_previously"], "sensor_fraud")
        s == AppendIf(s2, alarms["mechanical_fraud_previously"], "mechanical_fraud")
    IN IF Len(s) > 0 THEN pop_back(s) ELSE <<"no_alarm">>

----------------------------------------------------------------------------
(* A telegram and the functions of the repository that processContent      *)
(* calls and that are not part of driver_izar.cc.                          *)
(*                                                                         *)
(* A telegram is a record                                                  *)
(*    frame           what t->extractFrame yields                          *)
(*    original        t->original (empty when the telegram was not         *)
(*                    re-framed)                                           *)
(*    interpretation  what detectDiehlFrameInterpretation answers for the  *)
(*                    frame                                                *)
(*    lfsr            for each key, the bytes the LFSR keystream of that   *)
(*                    key turns the frame's payload into                   *)

\* t->extractFrame(&frame), line 229.
extractFrame(t) == t.frame

\* detectDiehlFrameInterpretation(frame), line 250: a pure function of the
\* header bytes of the frame.
detectDiehlFrameInterpretation(t, frame) == t.interpretation

\* decodeDiehlLfsr(origin, frame, key, HEADER_1_BYTE, 0x4B), line 300: the
\* keystream output for the key, or empty when its first byte is not the check
\* value.
decodeDiehlLfsr(t, origin, frame, key, check_method, check_value) ==
    LET plain == t.lfsr[key]
    IN IF plain # <<>> /\ check_method = "HEADER_1_BYTE" /\ plain[1] # check_value
       THEN <<>>
       ELSE plain

\* uint32FromBytes(data, offset, true), lines 270-271: four bytes, least
\* significant first, as <<high 16 bits, low 16 bits>>.
uint32FromBytes(data, offset, junk) ==
    <<BitOr(Shl(At(data, offset + 3, junk), 8), At(data, offset + 2, junk)),
      BitOr(Shl(At(data, offset + 1, junk), 8), At(data, offset, junk))>>

\* Driver::decodePrios, lines 298-301.
decodePrios(t, origin, frame, key) ==
    decodeDiehlLfsr(t, origin, frame, key, "HEADER_1_BYTE", \h4B)

----------------------------------------------------------------------------
(* Driver::processContent, lines 226-296.                                  *)

\* What an index at or past the end of a vector does (operator[] of
\* std::vector does not check): the process is aborted, or the read yields a
\* byte of whatever lies behind the vector's storage.
JunkBytes == {0, \hFF}

UBOutcomes == {[abort |-> TRUE, junk |-> 0]} \cup {[abort |-> FALSE, junk |-> b] : b \in JunkBytes}

\* The statement about to run indexes vec up to index top (counted from 0).
Access(x, vec, top, ub) ==
    IF x.status # "running" \/ top < Len(vec) THEN x
    ELSE [x EXCEPT !.oob = TRUE, !.status = IF ub.abort THEN "abort" ELSE @]

\* The loop without its break.
LoopBreaks_never(decoded) == FALSE

\* if (!decoded_content.empty()) break;  line 235.
LoopBreaks(decoded) == decoded # <<>>

\* The loop of lines 233-237 from the i-th key on.
RECURSIVE KeyLoop(_, _, _, _, _, _, _)
KeyLoop(ks, t, origin, frame, i, tried, decoded) ==
    IF i > Len(ks) THEN [calls |-> tried, decoded |-> decoded]
    ELSE LET d == decodePrios(t, origin, frame, ks[i])
         IN IF LoopBreaks(d)
            THEN [calls |-> Append(tried, ks[i]), decoded |-> d]
            ELSE KeyLoop(ks, t, origin, frame, i + 1, Append(tried, ks[i]), d)

\* The call without its early return.
DecodeFailed_never(decoded) == FALSE

\* if (decoded_content.empty()) { ...; return; }  lines 241-248.
DecodeFailed(decoded) == decoded = <<>>

\* Line 252: the decimal text of the 26-bit value of origin[4..7].
SerialDigits(x, e) ==
    LET a == Access(x, e.origin, 7, e.ub)
        j == e.ub.junk
    IN IF a.status # "running" THEN a
       ELSE [a EXCEPT !.digits =
                to_string(BitOr(BitOr(BitOr(Shl(BitAnd(At(e.origin, 7, j), \h03), 24),
                                            Shl(At(e.origin, 6, j), 16)),
                                      Shl(At(e.origin, 5, j), 8)),
                                At(e.origin, 4, j)))]

\* The manufacture year with the threshold of the historical date.
CenturyOfManufacture_80(yy) == IF yy > 80 THEN 1900 + yy ELSE 2000 + yy

\* Line 255.
CenturyOfManufacture(yy) == IF yy > 70 THEN 1900 + yy ELSE 2000 + yy

\* Lines 254-255: uint8_t yy and manufacture_year.
ManufactureYear(x, e) ==
    IF x.status # "running" THEN x
    ELSE LET yy == atoi(substr(x.digits, 0, 2)) % 256
         IN [x EXCEPT !.yy = yy, !.m.manufacture_year = CenturyOfManufacture(yy)]

\* The serial number taken from the second character on.
SerialPart_from1(digits) == substr(digits, 1, Len(digits))

\* The argument of atoi on line 257.
SerialPart(digits) == substr(digits, 2, Len(digits))

\* Line 257: substr(2, ...) throws when digits has fewer than 2 characters.
SerialNumber(x, e) ==
    IF x.status # "running" THEN x
    ELSE IF substr_throws(x.digits, 2) THEN [x EXCEPT !.status = "exception"]
    ELSE [x EXCEPT !.m.serial_number = atoi(SerialPart(x.digits))]

\* Lines 259-263: the three letters and the prefix "%c%02d%c%c".
Prefix(x, e) ==
    LET a == Access(x, e.origin, 9, e.ub)
        j == e.ub.junk
        o7 == At(e.origin, 7, j)
        o8 == At(e.origin, 8, j)
        o9 == At(e.origin, 9, j)
        supplier_code == (64 + BitOr(Shl(BitAnd(o9, \h0F), 1), Shr(o8, 7))) % 256
        meter_type == (64 + Shr(BitAnd(o8, \h7C), 2)) % 256
        diameter == (64 + BitOr(Shl(BitAnd(o8, \h03), 3), Shr(o7, 5))) % 256
    IN IF a.status # "running" THEN a
       ELSE [a EXCEPT !.m.prefix =
                <<supplier_code>> \o ZeroPad(to_string(a.yy), 2) \o <<meter_type, diameter>>]

\* Lines 250-264: the branch taken for the SAP_PRIOS interpretation.
SapPrios(x, e) == Prefix(SerialNumber(ManufactureYear(SerialDigits(x, e), e), e), e)

\* Line 267.
BatteryLife(x, e) ==
    LET a == Access(x, e.frame, 12, e.ub)
    IN IF a.status # "running" THEN a
       ELSE [a EXCEPT !.m.remaining_battery_life =
                5 * BitAnd(At(e.frame, 12, e.ub.junk), \h1F)]

\* Line 268.
TransmitPeriod(x, e) ==
    LET a == Access(x, e.frame, 11, e.ub)
    IN IF a.status # "running" THEN a
       ELSE [a EXCEPT !.m.transmit_period_s_ =
                Shl(1, BitAnd(At(e.frame, 11, e.ub.junk), \h0F) + 2)]

\* Line 270.
Total(x, e) ==
    LET a == Access(x, e.decoded, 4, e.ub)
    IN IF a.status # "running" THEN a
       ELSE [a EXCEPT !.m.total_water_consumption_l_ =
                uint32FromBytes(e.decoded, 1, e.ub.junk)]

\* Line 271.
LastMonthTotal(x, e) ==
    LET a == Access(x, e.decoded, 8, e.ub)
    IN IF a.status # "running" THEN a
       ELSE [a EXCEPT !.m.last_month_total_water_consumption_l_ =
                uint32FromBytes(e.decoded, 5, e.ub.junk)]

\* Lines 275-279.
CenturyOfH0(year) == IF year > 80 THEN year + 1900 ELSE year + 2000

\* Lines 274-281.
H0Date(x, e) ==
    LET a == Access(x, e.decoded, 10, e.ub)
        d9 == At(e.decoded, 9, e.ub.junk)
        d10 == At(e.decoded, 10, e.ub.junk)
    IN IF a.status # "running" THEN a
       ELSE [a EXCEPT !.m.h0_year =
                          CenturyOfH0(Shr(BitAnd(d10, \hF0), 1) + Shr(BitAnd(d9, \hE0), 5)),
                      !.m.h0_month = BitAnd(d10, \h0F),
                      !.m.h0_day = BitAnd(d9, \h1F)]

\* Line 284.
GeneralAlarm(x, e) ==
    LET a == Access(x, e.frame, 11, e.ub)
    IN IF a.status # "running" THEN a
       ELSE [a EXCEPT !.m.alarms.general_alarm = Shr(At(e.frame, 11, e.ub.junk), 7) # 0]

\* Lines 285-287.
AlarmsOfByte12(x, e) ==
    LET a == Access(x, e.frame, 12, e.ub)
        f12 == At(e.frame, 12, e.ub.junk)
    IN IF a.status # "running" THEN a
       ELSE [a EXCEPT !.m.alarms.leakage_currently = Shr(f12, 7) # 0,
                      !.m.alarms.leakage_previously = BitAnd(Shr(f12, 6), 1) # 0,
                      !.m.alarms.meter_blocked = BitAnd(Shr(f12, 5), 1) # 0]

\* Lines 288-295.
AlarmsOfByte13(x, e) ==
    LET a == Access(x, e.frame, 13, e.ub)
        f13 == At(e.frame, 13, e.ub.junk)
    IN IF a.status # "running" THEN a
       ELSE [a EXCEPT !.m.alarms.back_flow = Shr(f13, 7) # 0,
                      !.m.alarms.underflow = BitAnd(Shr(f13, 6), 1) # 0,
                      !.m.alarms.overflow = BitAnd(Shr(f13, 5), 1) # 0,
                      !.m.alarms.submarine = BitAnd(Shr(f13, 4), 1) # 0,
                      !.m.alarms.sensor_fraud_currently = BitAnd(Shr(f13, 3), 1) # 0,
                      !.m.alarms.sensor_fraud_previously = BitAnd(Shr(f13, 2), 1) # 0,
                      !.m.alarms.mechanical_fraud_currently = BitAnd(Shr(f13, 1), 1) # 0,
                      !.m.alarms.mechanical_fraud_previously = BitAnd(f13, 1) # 0]

\* Lines 284-295.
Alarms(x, e) == AlarmsOfByte13(AlarmsOfByte12(GeneralAlarm(x, e), e), e)

\* The whole call: the reading it leaves, the keys it tried, decoded_content,
\* how it ended ("ok", "ignored": the return of line 247, "exception":
\* std::out_of_range leaves the function, "abort": the process died on an
\* index past the end), and whether it indexed past the end of a vector.
processContent(m, ks, t, ub) ==
    LET frame == extractFrame(t)
        origin == IF t.original = <<>> THEN frame ELSE t.original
        trial == KeyLoop(ks, t, origin, frame, 1, <<>>, <<>>)
        e == [frame |-> frame, origin |-> origin, decoded |-> trial.decoded, ub |-> ub]
        x0 == [m |-> m, status |-> "running", oob |-> FALSE, digits |-> <<>>, yy |-> 0]
        x1 == IF detectDiehlFrameInterpretation(t, frame) = "SAP_PRIOS"
              THEN SapPrios(x0, e) ELSE x0
        x2 == Alarms(H0Date(LastMonthTotal(Total(TransmitPeriod(BatteryLife(x1, e), e), e), e), e), e)
    IN IF DecodeFailed(trial.decoded)
       THEN [m |-> m, calls |-> trial.calls, decoded |-> trial.decoded,
             outcome |-> "ignored", oob |-> FALSE]
       ELSE [m |-> x2.m, calls |-> trial.calls, decoded |-> trial.decoded,
             outcome |-> IF x2.status = "running" THEN "ok" ELSE x2.status,
             oob |-> x2.oob]

----------------------------------------------------------------------------
(* Telegrams.                                                              *)

\* The ten header bytes of a frame whose bytes 4-7 carry the 26-bit value v
\* (least significant byte first; bits 5-7 of byte 7 are hi7) and whose bytes 8
\* and 9 are b8 and b9. Bytes 0-3 are those of the test telegrams of lines
\* 305 and 327.
Header(v, hi7, b8, b9) ==
    <<\h19, \h44, \h30, \h4C,
      v % 256, (v \div 256) % 256, (v \div 65536) % 256,
      BitOr((v \div 16777216) % 4, hi7), b8, b9>>

Take(s, n) == SubSeq(s, 1, IF n < Len(s) THEN n ELSE Len(s))

\* Bytes 10-14 and the 11 encrypted bytes of the telegram of line 305.
Tail305 == <<\hA2, \h01, \h3D, \h40, \h13>>

Cipher305 == <<\hDD, \h8B, \h46, \hA4, \h99, \h9C, \h12, \h93, \hE5, \h82, \hCC>>

\* A frame: the header, bytes 10-14, and n encrypted bytes.
FrameOf(v, tail, n) == Header(v, \h20, \hD4, \h01) \o tail \o Take(Cipher305, n)

\* The telegram of line 305 (IzarWater).
Frame305 == FrameOf(19145842, Tail305, 11)

\* A decrypted payload: the check byte, the two totals, bytes 9 and 10.
LittleEndian(n) == <<n % 256, (n \div 256) % 256, (n \div 65536) % 256, (n \div 16777216) % 256>>

Payload(total, last_month, d9, d10) ==
    <<\h4B>> \o LittleEndian(total) \o LittleEndian(last_month) \o <<d9, d10>>

\* Payload bytes 9 and 10 of 2019-09-30, the date of line 306.
Date305 == <<\h7E, \h29>>

\* What a key that passes the check turns the encrypted bytes into: the payload
\* of line 306 (total 3488, last month 3486) for key 1, another total for
\* another key.
PayloadOfKey(k, d) == Payload(3487 + k, 3486, d[1], d[2])

\* What a key that fails the check turns them into: the first byte is not 0x4B.
WrongKeyOutput == <<\hDD>> \o LittleEndian(7) \o LittleEndian(7) \o <<\h82, \hCC>>

\* The keystream outputs for a frame of n encrypted bytes: as many bytes as
\* were encrypted, passing the check for the keys in good.
Lfsr(n, good, d) ==
    [k \in KeySpace |-> Take(IF k \in good THEN PayloadOfKey(k, d) ELSE WrongKeyOutput, n)]

Telegram(frame, original, interpretation, lfsr) ==
    [frame |-> frame, original |-> original, interpretation |-> interpretation, lfsr |-> lfsr]

NoTelegram == Telegram(<<>>, <<>>, "NA", [k \in KeySpace |-> <<>>])

\* The telegrams of the main specification: no encrypted bytes, 9 or 11; the
\* telegram re-framed (original is the frame of line 305) or not; either
\* interpretation; no key or one key passing the check; and a frame cut to 12
\* bytes, which no key decrypts. Bytes 4-7 are those of line 327.
Telegrams ==
    {Telegram(FrameOf(15007710, Tail305, n), original, interp, Lfsr(n, good, Date305)) :
        n \in {0, 9, 11}, original \in {<<>>, Frame305},
        interp \in {"SAP_PRIOS", "NA"}, good \in {{}} \cup {{k} : k \in KeySpace}}
    \cup {Telegram(Take(FrameOf(15007710, Tail305, 0), 12), <<>>, "NA", Lfsr(0, {}, Date305))}

----------------------------------------------------------------------------
(* The state machine.                                                      *)

\* No print callback has been called yet.
NotPrinted == [f \in {} |-> <<>>]

\* Driver::Driver, lines 89-142: the key list is set (line 91), the members
\* with an initializer hold it, the others are indeterminate.
InitOf(readings, keylists) ==
    /\ reading \in readings
    /\ keys \in keylists
    /\ fresh = TRUE
    /\ prints = NotPrinted
    /\ telegram = NoTelegram
    /\ before = reading
    /\ calls = <<>>
    /\ decoded_content = <<>>
    /\ outcome = "none"
    /\ oob = FALSE

\* The memory of a new Driver: one fill byte for all of it.
NewDrivers ==
    {Driver([remaining_battery_life |-> g, h0_year |-> 256 * g + g,
             h0_month |-> g, h0_day |-> g],
            [n \in AlarmNames |-> g # 0]) : g \in FillBytes}

Init == InitOf(NewDrivers, {<<>>, <<1>>, <<2, 1>>})

\* The ways a call on t can end: one when every index is in range, one for
\* each outcome of the undefined behaviour otherwise.
Outcomes(m, ks, t) ==
    LET checked == processContent(m, ks, t, [abort |-> TRUE, junk |-> 0])
    IN IF checked.oob THEN {processContent(m, ks, t, ub) : ub \in UBOutcomes}
       ELSE {checked}

\* One call of processContent, on telegram t, from its entry to its end.
ProcessContent(t) ==
    /\ outcome = "none"
    /\ \E r \in Outcomes(reading, keys, t) :
        /\ reading' = r.m
        /\ telegram' = t
        /\ before' = reading
        /\ calls' = r.calls
        /\ decoded_content' = r.decoded
        /\ outcome' = r.outcome
        /\ oob' = r.oob
        /\ fresh' = (fresh /\ r.outcome # "ok")
    /\ UNCHANGED <<keys, prints>>

\* The call has returned, or thrown to a caller that goes on: its locals are
\* gone. A process that was aborted does nothing more.
Return ==
    /\ outcome \in {"ok", "ignored", "exception"}
    /\ telegram' = NoTelegram
    /\ before' = reading
    /\ calls' = <<>>
    /\ decoded_content' = <<>>
    /\ outcome' = "none"
    /\ oob' = FALSE
    /\ UNCHANGED <<reading, keys, fresh, prints>>

\* The print callbacks of lines 123-131.
PrintCurrentAlarms ==
    /\ outcome = "none"
    /\ prints' = [f \in DOMAIN prints \cup {"current_alarms"} |->
                     IF f = "current_alarms" THEN currentAlarmsText(reading.alarms)
                     ELSE prints[f]]
    /\ UNCHANGED <<reading, keys, fresh, telegram, before, calls, decoded_content, outcome, oob>>

PrintPreviousAlarms ==
    /\ outcome = "none"
    /\ prints' = [f \in DOMAIN prints \cup {"previous_alarms"} |->
                     IF f = "previous_alarms" THEN previousAlarmsText(reading.alarms)
                     ELSE prints[f]]
    /\ UNCHANGED <<reading, keys, fresh, telegram, before, calls, decoded_content, outcome, oob>>

Next ==
    \/ \E t \in Telegrams : ProcessContent(t)
    \/ Return

Spec == Init /\ [][Next]_vars

----------------------------------------------------------------------------
(* The key-trial loop on its own: every key list of up to MaxKeys keys, and *)
(* every set of keys passing the check, on a well-formed telegram and on   *)
(* one without encrypted bytes.                                            *)

KeyTelegrams ==
    {Telegram(FrameOf(15007710, Tail305, n), <<>>, interp, Lfsr(n, good, Date305)) :
        n \in {0, 11}, interp \in {"SAP_PRIOS", "NA"}, good \in SUBSET KeySpace}

InitKeys == InitOf(NewDrivers, KeyLists)

NextKeys ==
    \/ \E t \in KeyTelegrams : ProcessContent(t)
    \/ Return

SpecKeys == InitKeys /\ [][NextKeys]_vars

----------------------------------------------------------------------------
(* The serial number, the manufacture year and the historical date: well-   *)
(* formed telegrams over 26-bit values around every number of decimal      *)
(* digits and both century thresholds, and over payload bytes 9 and 10     *)
(* around the threshold of the historical year.                            *)

SerialValues ==
    {0, 5, 10, 70, 71, 100, 999999, 5123456, 7112345, 9999999, 10000000, 15007710,
     19145842, 67108863}

\* <<payload byte 9, payload byte 10>>: 2019-09-30, raw years 80 and 81, all
\* bits set, no bit set.
DateBytes == {Date305, <<\h01, \hA1>>, <<\h21, \hA1>>, <<\hFF, \hFF>>, <<0, 0>>}

YearTelegrams ==
    {Telegram(FrameOf(v, Tail305, 11), <<>>, interp, Lfsr(11, {1}, d)) :
        v \in SerialValues, interp \in {"SAP_PRIOS", "NA"}, d \in DateBytes}

InitYears == InitOf(NewDrivers, {<<1>>})

NextYears ==
    \/ \E t \in YearTelegrams : ProcessContent(t)
    \/ Return

SpecYears == InitYears /\ [][NextYears]_vars

----------------------------------------------------------------------------
(* The alarm texts: the first telegram of a new meter, received before      *)
(* anything is printed, carries any of the 4096 combinations of the 12     *)
(* alarm bits (bit 7 of frame byte 11, bits 5-7 of byte 12, byte 13); the   *)
(* two print callbacks are called before it and after it.                  *)

AlarmTelegrams ==
    {Telegram(FrameOf(15007710, <<\hA2, b11, b12, b13, \h13>>, 11), <<>>, "SAP_PRIOS",
              Lfsr(11, {1}, Date305)) :
        b11 \in {\h01, \h81}, b12 \in {\h1D + 32 * i : i \in 0..7}, b13 \in 0..255}

InitAlarms == InitOf(NewDrivers, {<<1>>})

FirstTelegram ==
    /\ fresh
    /\ prints = NotPrinted
    /\ \E t \in AlarmTelegrams : ProcessContent(t)

NextAlarms ==
    \/ FirstTelegram
    \/ Return
    \/ PrintCurrentAlarms
    \/ PrintPreviousAlarms

SpecAlarms == InitAlarms /\ [][NextAlarms]_vars

----------------------------------------------------------------------------
(* The claims. A call has just ended when outcome is not "none"; telegram,  *)
(* before, calls, decoded_content and oob are then those of that call.     *)

CallEnded == outcome # "none"

OriginOf(t) == IF t.original = <<>> THEN t.frame ELSE t.original

\* What decodePrios returns for the i-th configured key on telegram t.
ResultOfKey(t, i) == decodePrios(t, OriginOf(t), t.frame, keys[i])

Validating(t) == {i \in 1..Len(keys) : ResultOfKey(t, i) # <<>>}

Min(S) == CHOOSE i \in S : \A j \in S : i <= j

\* The defaults of a MeterReading: zero, empty, no alarm.
Defaults ==
    Driver([remaining_battery_life |-> 0, h0_year |-> 0, h0_month |-> 0, h0_day |-> 0],
           NoAlarms)

\* C1: a call in which no configured key yields a non-empty decrypt result
\* (the key list may be empty) leaves every MeterReading field as it was when
\* the call was entered.
C1_DecryptFailureKeepsReading ==
    (CallEnded /\ Validating(telegram) = {}) => reading = before

\* C1's case: a telegram no key decrypts reaches a meter that has keys and has
\* decoded a telegram before.
C1_Witness ==
    /\ CallEnded
    /\ Validating(telegram) = {}
    /\ keys # <<>>
    /\ ~fresh
    /\ reading.serial_number = 7710

\* C2: a call that fails after decryption (an index past the end of frame,
\* origin or the decoded payload, or a throwing substr) leaves every
\* MeterReading field as it was when the call was entered.
C2_AllOrNothing ==
    (CallEnded /\ Validating(telegram) # {} /\ (oob \/ outcome \in {"exception", "abort"}))
        => reading = before

\* The telegrams C3 is about: a frame shorter than 14 bytes, an origin shorter
\* than 10 bytes in the SAP_PRIOS variant, a non-empty decoded payload shorter
\* than 11 bytes.
TooShort(t) ==
    \/ Len(t.frame) < 14
    \/ t.interpretation = "SAP_PRIOS" /\ Len(OriginOf(t)) < 10
    \/ decoded_content # <<>> /\ Len(decoded_content) < 11

\* C3: no call indexes frame, origin or the decoded payload at or past its
\* end, and a telegram that is too short is dropped like one that no key
\* decrypts.
C3_NoIndexPastTheEnd ==
    CallEnded => /\ ~oob
                 /\ TooShort(telegram) => (outcome = "ignored" /\ reading = before)

\* C4: the loop hands the configured keys to decodePrios in list order, each
\* at most once, none after the first that yields a non-empty payload; the
\* payload extracted from is that of the first validating key, and
\* decoded_content is empty exactly when every configured key yields empty.
C4_KeysTriedInOrderUntilFirstSuccess ==
    CallEnded =>
        /\ Len(calls) <= Len(keys)
        /\ calls = SubSeq(keys, 1, Len(calls))
        /\ \A i \in 1..(Len(calls) - 1) : ResultOfKey(telegram, i) = <<>>
        /\ IF Validating(telegram) = {}
           THEN Len(calls) = Len(keys) /\ decoded_content = <<>>
           ELSE LET first == Min(Validating(telegram))
                IN /\ Len(calls) = first
                   /\ decoded_content = ResultOfKey(telegram, first)
                   /\ decoded_content # <<>>
                   /\ outcome = "ok" =>
                          reading.total_water_consumption_l_ =
                              uint32FromBytes(ResultOfKey(telegram, first), 1, 0)

\* C4's case: the first key fails, a later one validates, and a key that
\* would validate too is left untried.
C4_Witness ==
    /\ outcome = "ok"
    /\ Len(calls) > 1
    /\ Len(calls) < Len(keys)
    /\ Len(keys) \in Validating(telegram)

\* C5: whenever general_alarm is set, the current alarm text is exactly
\* general_alarm, whatever the other current flags are.
C5_GeneralAlarmOverrides ==
    ("current_alarms" \in DOMAIN prints /\ reading.alarms["general_alarm"])
        => prints["current_alarms"] = <<"general_alarm">>

\* The flags of each category with the names they are printed under, in the
\* order of the text.
CurrentOrder ==
    << <<"leakage_currently", "leakage">>, <<"meter_blocked", "meter_blocked">>,
       <<"back_flow", "back_flow">>, <<"underflow", "underflow">>,
       <<"overflow", "overflow">>, <<"submarine", "submarine">>,
       <<"sensor_fraud_currently", "sensor_fraud">>,
       <<"mechanical_fraud_currently", "mechanical_fraud">> >>

PreviousOrder ==
    << <<"leakage_previously", "leakage">>, <<"sensor_fraud_previously", "sensor_fraud">>,
       <<"mechanical_fraud_previously", "mechanical_fraud">> >>

\* The printed names of the active flags of a category, in order.
ActiveNames(order, alarms) ==
    LET active == SelectSeq(order, LAMBDA p : alarms[p[1]])
    IN [i \in 1..Len(active) |-> active[i][2]]

\* Names joined by single commas.
RECURSIVE Joined(_)
Joined(names) ==
    IF Len(names) = 0 THEN <<>>
    ELSE IF Len(names) = 1 THEN <<names[1]>>
    ELSE <<names[1], ",">> \o Joined(Tail(names))

WellFormedText(text) == text # <<>> /\ text[1] # "," /\ text[Len(text)] # ","

\* C6: each alarm text is non-empty and is no_alarm, general_alarm (current
\* only) or the names of exactly the active flags of its category, in the
\* fixed order, joined by single commas, with no comma at either end.
C6_AlarmTextShape ==
    /\ "current_alarms" \in DOMAIN prints =>
           /\ WellFormedText(prints["current_alarms"])
           /\ prints["current_alarms"] \in
                  {<<"no_alarm">>, <<"general_alarm">>,
                   Joined(ActiveNames(CurrentOrder, reading.alarms))}
    /\ "previous_alarms" \in DOMAIN prints =>
           /\ WellFormedText(prints["previous_alarms"])
           /\ prints["previous_alarms"] \in
                  {<<"no_alarm">>, Joined(ActiveNames(PreviousOrder, reading.alarms))}

\* C6's case: both texts printed for a meter with several active flags in
\* each category.
C6_Witness ==
    /\ DOMAIN prints = {"current_alarms", "previous_alarms"}
    /\ prints["current_alarms"] = <<"meter_blocked", ",", "underflow", ",", "mechanical_fraud">>
    /\ prints["previous_alarms"] = <<"leakage", ",", "mechanical_fraud">>

IsDigit(c) == c \in 48..57

\* C7: the stored serial number is always in 0..999999 and its text is
\* exactly 6 decimal digits.
C7_SerialNumberIsSixDigits ==
    /\ reading.serial_number \in 0..999999
    /\ Len(serialNumber(reading)) = 6
    /\ \A i \in 1..Len(serialNumber(reading)) : IsDigit(serialNumber(reading)[i])

\* C7's case: the telegram of line 327 has been decoded; its serial number
\* 7710 prints as 007710.
C7_Witness ==
    /\ outcome = "ok"
    /\ reading.serial_number = 7710
    /\ serialNumber(reading) = <<48, 48, 55, 55, 49, 48>>

\* C8: until a telegram has been decoded, every MeterReading field has its
\* zero or empty default and both alarm texts are no_alarm.
C8_DefaultsBeforeFirstDecode ==
    fresh => /\ reading = Defaults
             /\ currentAlarmsText(reading.alarms) = <<"no_alarm">>
             /\ previousAlarmsText(reading.alarms) = <<"no_alarm">>

\* The 26-bit value of bytes 4-7 of the origin of a well-formed telegram.
ValueOf(t) ==
    LET o == OriginOf(t)
    IN o[5] + 256 * o[6] + 65536 * o[7] + 16777216 * (o[8] % 4)

\* The first two decimal digits of n, as a number.
RECURSIVE LeadingTwo(_)
LeadingTwo(n) == IF n < 100 THEN n ELSE LeadingTwo(n \div 10)

\* The raw year of the historical date in the payload key 1 decrypts.
RawH0Year(t) ==
    LET d == t.lfsr[1]
    IN 8 * (d[11] \div 16) + (d[10] \div 32)

\* C9: the manufacture year is 1900+yy for yy > 70 and 2000+yy otherwise, the
\* historical year is 1900+y for y > 80 and 2000+y otherwise, each whatever
\* the other is.
C9_TwoCenturyRules ==
    /\ (outcome \in {"ok", "exception"} /\ telegram.interpretation = "SAP_PRIOS") =>
           LET yy == LeadingTwo(ValueOf(telegram))
           IN reading.manufacture_year = IF yy >= 71 THEN 1900 + yy ELSE 2000 + yy
    /\ outcome = "ok" =>
           LET y == RawH0Year(telegram)
           IN reading.h0_year = IF y >= 81 THEN 1900 + y ELSE 2000 + y

\* C9's case: one telegram with yy = 71 and y = 80, which the two rules put
\* in different centuries.
C9_Witness ==
    /\ outcome = "ok"
    /\ telegram.interpretation = "SAP_PRIOS"
    /\ LeadingTwo(ValueOf(telegram)) = 71
    /\ RawH0Year(telegram) = 80
    /\ reading.manufacture_year = 1971
    /\ reading.h0_year = 2080

====
